---- MODULE Spec2Model ----
(***************************************************************************)
(* brainfuck-rs: the parser (lib/src/parse.rs) and the bytecode            *)
(* interpreter (lib/src/interpreter.rs) as state machines.                 *)
(*                                                                         *)
(* Rust indices are 0-based; TLA+ sequences are 1-based.  Every index kept *)
(* in the state (idx, loop_stack entries, BeginLoop/EndLoop payloads,      *)
(* state.position, position) is the 0-based Rust value; At and SetAt do    *)
(* the shift when a sequence is accessed.                                  *)
(***************************************************************************)
EXTENDS Integers, Sequences, FiniteSets, TLC

VARIABLES
    code,        \* parse: the source text
    idx,         \* parse: the index of the next character of code
    output,      \* parse: the instructions pushed so far
    loop_stack,  \* parse: the pending '[' of the text
    pstate,      \* parse: "parsing", "returned" or the panic that ended it
    bytecode,    \* run_bytecode: the instructions it runs
    state,       \* run_bytecode: State, [memory, position]
    position,    \* run_bytecode: the instruction pointer
    input,       \* the bytes of the input stream
    input_pos,   \* the number of bytes read from input
    written,     \* the bytes the output stream has accepted
    sink,        \* the output stream: [bounded, room], room the bytes it accepts
    status,      \* run_bytecode: "running", "finished" or the panic that ended it
    lean         \* a second run of bytecode on the same streams, on a tape that
                 \* starts with one cell: [state, position, input_pos, written, status]

parseVars == <<code, idx, output, loop_stack, pstate>>

runVars == <<bytecode, state, position, input, input_pos, written, sink, status, lean>>

vars == <<parseVars, runVars>>

---------------------------------------------------------------------------
(* Bounds of the model. *)

\* The longest source text parse is given.
MaxLen == 4

\* The longest bytecode run_bytecode is given, TapeWalk and NestedLoops apart.
MaxCode == 3

\* The longest input stream.
MaxInput == 2

\* The most bytes a bounded output stream accepts.
MaxSinkRoom == 1

\* Output is not taken once an unbounded stream holds this many bytes.
MaxWritten == 3

\* GoRight is not taken once the cursor is this far right; TapeWalk is
\* followed until the tape has grown by MaxGrowth cells.
MaxCursor == 3

MaxGrowth == 2

---------------------------------------------------------------------------
(* instruction.rs: enum Instruction *)

GoRight == [op |-> "GoRight"]
GoLeft == [op |-> "GoLeft"]
Increment == [op |-> "Increment"]
Decrement == [op |-> "Decrement"]
Output == [op |-> "Output"]
Input == [op |-> "Input"]
BeginLoop(i) == [op |-> "BeginLoop", idx |-> i]
EndLoop(i) == [op |-> "EndLoop", idx |-> i]
Abort == [op |-> "Abort"]

---------------------------------------------------------------------------
(* Vec<T> indexing, 0-based. *)

At(s, i) == s[i + 1]

SetAt(s, i, v) == [s EXCEPT ![i + 1] = v]

---------------------------------------------------------------------------
(* interpreter.rs: State *)

\* vec![0u8; 1024]
InitialCells == 1024

\* u8: the values of a cell are 0..ByteMod-1.
ByteMod == 256

\* A Vec<u8> is kept as its length and its cells that are not 0: the Vec of
\* length len whose cell i holds cells[i] where i is in DOMAIN cells, and 0
\* elsewhere.  Two Vecs are equal exactly when these are.
vec_zeros(n) == [len |-> n, cells |-> [k \in {} |-> 0]]

vec_len(m) == m.len

\* m[i], for an index i of m.
vec_get(m, i) == IF i \in DOMAIN m.cells THEN m.cells[i] ELSE 0

\* m[i] = v, for an index i of m.
vec_set(m, i, v) ==
    LET old == m.cells
        dom == (DOMAIN old \cup {i}) \ (IF v = 0 THEN {i} ELSE {})
    IN  [m EXCEPT !.cells = [k \in dom |-> IF k = i THEN v ELSE old[k]]]

\* The indices of m whose cell is not 0.
vec_nonzero(m) == DOMAIN m.cells

\* m.push(v)
vec_push(m, v) == vec_set([m EXCEPT !.len = @ + 1], m.len, v)

State_new == [memory |-> vec_zeros(InitialCells), position |-> 0]

get_data(st) == vec_get(st.memory, st.position)

\* A mutant of set_data: the first cell is written, not the current one.
set_data_first_cell(st, data) == [st EXCEPT !.memory = vec_set(st.memory, 0, data)]

set_data(st, data) == [st EXCEPT !.memory = vec_set(st.memory, st.position, data)]

\* A mutant of move_left: no assertion, the cursor stays at 0.
move_left_saturating(st) ==
    [panic |-> FALSE,
     state |-> [st EXCEPT !.position = IF @ = 0 THEN 0 ELSE @ - 1]]

\* assert_ne!(self.position, 0) panics before the cursor is touched.
move_left(st) ==
    IF st.position = 0
    THEN [panic |-> TRUE, state |-> st]
    ELSE [panic |-> FALSE, state |-> [st EXCEPT !.position = @ - 1]]

\* A mutant of move_right: a cell is pushed on every move.
move_right_always_push(st) ==
    [st EXCEPT !.position = @ + 1, !.memory = vec_push(@, 0)]

\* A mutant of move_right: the cell the tape grows by holds 1.
move_right_push_one(st) ==
    LET moved == [st EXCEPT !.position = @ + 1]
    IN  IF moved.position = vec_len(moved.memory)
        THEN [moved EXCEPT !.memory = vec_push(@, 1)]
        ELSE moved

move_right(st) ==
    LET moved == [st EXCEPT !.position = @ + 1]
    IN  IF moved.position = vec_len(moved.memory)
        THEN [moved EXCEPT !.memory = vec_push(@, 0)]
        ELSE moved

\* A mutant of wrapping_add: the sum stops at the greatest byte.
saturating_add(v, n) == IF v + n >= ByteMod THEN ByteMod - 1 ELSE v + n

\* u8::wrapping_add and u8::wrapping_sub
wrapping_add(v, n) == (v + n) % ByteMod

wrapping_sub(v, n) == (v + ByteMod - n) % ByteMod

---------------------------------------------------------------------------
(* parse.rs: parse *)

\* The characters the match of parse names, and one representative of the
\* characters that fall to its `_` arm.
InstrChars == {">", "<", "+", "-", ".", ",", "[", "]"}

OtherChars == {"x"}

Chars == InstrChars \cup OtherChars

\* The source texts of at most n characters.
Texts(n) == UNION {[1..k -> Chars] : k \in 0..n}

\* A mutant of PopTop: the oldest pending bracket instead of the newest.
PopBottom(stack) == stack[1]

\* loop_stack.pop(): the value popped, the last element of the Vec.
PopTop(stack) == stack[Len(stack)]

\* loop_stack.pop(): the Vec that remains.
PopRest(stack) == SubSeq(stack, 1, Len(stack) - 1)

\* The result of one iteration of the for loop: the new output and loop_stack,
\* and "ok" or the panic that ended parse.
Iter(out, stack, res) == [output |-> out, loop_stack |-> stack, result |-> res]

\* A mutant of OpenLoop: the placeholder is a BeginLoop that targets itself.
OpenLoopSelfTarget(out, stack, i) ==
    Iter(Append(out, BeginLoop(Len(out))), Append(stack, i), "ok")

\* The '[' arm: push idx, the new instruction is Abort.
OpenLoop(out, stack, i) ==
    Iter(Append(out, Abort), Append(stack, i), "ok")

\* The ']' arm: pop().unwrap() panics on an empty stack, output[open_idx]
\* panics when open_idx is not an index of output; otherwise the
\* instruction at open_idx becomes BeginLoop(idx) and the new instruction is
\* EndLoop(open_idx).
CloseLoop(out, stack, i) ==
    IF stack = <<>>
    THEN Iter(out, stack, "panic_unwrap")
    ELSE LET open_idx == PopTop(stack)
         IN  IF open_idx >= Len(out)
             THEN Iter(out, PopRest(stack), "panic_index")
             ELSE Iter(Append(SetAt(out, open_idx, BeginLoop(i)), EndLoop(open_idx)),
                       PopRest(stack), "ok")

\* The body of the for loop for the character c at index i of the source.
ParseChar(out, stack, i, c) ==
    CASE c = ">" -> Iter(Append(out, GoRight), stack, "ok")
      [] c = "<" -> Iter(Append(out, GoLeft), stack, "ok")
      [] c = "+" -> Iter(Append(out, Increment), stack, "ok")
      [] c = "-" -> Iter(Append(out, Decrement), stack, "ok")
      [] c = "." -> Iter(Append(out, Output), stack, "ok")
      [] c = "," -> Iter(Append(out, Input), stack, "ok")
      [] c = "[" -> OpenLoop(out, stack, i)
      [] c = "]" -> CloseLoop(out, stack, i)
      [] OTHER -> Iter(out, stack, "ok")

\* parse as a function of the text: the for loop from character i on.
RECURSIVE ParseFrom(_, _, _, _)
ParseFrom(text, i, out, stack) ==
    IF i = Len(text)
    THEN [result |-> "returned", output |-> out]
    ELSE LET it == ParseChar(out, stack, i, At(text, i))
         IN  IF it.result = "ok"
             THEN ParseFrom(text, i + 1, it.output, it.loop_stack)
             ELSE [result |-> it.result, output |-> it.output]

parse(text) == ParseFrom(text, 0, <<>>, <<>>)

\* A run of run_bytecode as a value, and the run that has not started.
Run(st, pos, inpos, wr, stat) ==
    [state |-> st, position |-> pos, input_pos |-> inpos, written |-> wr,
     status |-> stat]

NoRun == Run([memory |-> vec_zeros(0), position |-> 0], 0, 0, <<>>, "idle")

\* run_bytecode has not been called.
RunIdle ==
    /\ bytecode = <<>>
    /\ state = [memory |-> vec_zeros(0), position |-> 0]
    /\ position = 0
    /\ input = <<>>
    /\ input_pos = 0
    /\ written = <<>>
    /\ sink = [bounded |-> FALSE, room |-> 0]
    /\ status = "idle"
    /\ lean = NoRun

\* parse is called with a text.
InitParse ==
    /\ code \in Texts(MaxLen)
    /\ idx = 0
    /\ output = <<>>
    /\ loop_stack = <<>>
    /\ pstate = "parsing"
    /\ RunIdle

\* One iteration of the for loop.
ParseStep ==
    /\ pstate = "parsing"
    /\ idx < Len(code)
    /\ LET it == ParseChar(output, loop_stack, idx, At(code, idx))
       IN  /\ output' = it.output
           /\ loop_stack' = it.loop_stack
           /\ pstate' = IF it.result = "ok" THEN "parsing" ELSE it.result
    /\ idx' = idx + 1
    /\ UNCHANGED <<code, runVars>>

\* The for loop is over: parse returns output.
ParseReturn ==
    /\ pstate = "parsing"
    /\ idx = Len(code)
    /\ pstate' = "returned"
    /\ UNCHANGED <<code, idx, output, loop_stack, runVars>>

NextParse == ParseStep \/ ParseReturn

SpecParse == InitParse /\ [][NextParse]_vars

---------------------------------------------------------------------------
(* interpreter.rs: run_bytecode *)

\* A mutant of read_exact: the byte is read and left in the stream.
read_exact_peek(in, pos) ==
    IF pos < Len(in)
    THEN [ok |-> TRUE, byte |-> At(in, pos), pos |-> pos]
    ELSE [ok |-> FALSE, byte |-> 0, pos |-> pos]

\* input.read_exact(&mut buf) on a buffer of one byte: the next unread byte,
\* or an error when none is left.
read_exact(in, pos) ==
    IF pos < Len(in)
    THEN [ok |-> TRUE, byte |-> At(in, pos), pos |-> pos + 1]
    ELSE [ok |-> FALSE, byte |-> 0, pos |-> pos]

\* output.write_all(&buf) on a buffer of one byte succeeds while the stream
\* accepts bytes.
write_all_ok(snk, wr) == ~snk.bounded \/ Len(wr) < snk.room

\* The instructions of the bytecode the model runs; jump payloads are indices
\* of a bytecode of at most n instructions.
Instructions(n) ==
    {GoRight, GoLeft, Increment, Decrement, Output, Input, Abort}
    \cup {BeginLoop(t) : t \in 0..(n - 1)}
    \cup {EndLoop(t) : t \in 0..(n - 1)}

Programs(n) == UNION {[1..k -> Instructions(n)] : k \in 0..n}

\* "+[>+]": the cursor walks right for ever.
TapeWalk == <<Increment, BeginLoop(4), GoRight, Increment, EndLoop(1)>>

\* "+[[-]]": a loop inside a loop.
NestedLoops ==
    <<Increment, BeginLoop(5), BeginLoop(4), Decrement, EndLoop(2), EndLoop(1)>>

InputBytes == {0, ByteMod - 1}

Inputs(n) == UNION {[1..k -> InputBytes] : k \in 0..n}

\* An output stream that accepts every byte (a Vec), and the streams that
\* accept at most n bytes.
Unbounded == [bounded |-> FALSE, room |-> 0]

Sinks(n) == {Unbounded} \cup {[bounded |-> TRUE, room |-> r] : r \in 0..n}

Has(bc, ins) == \E k \in 1..Len(bc) : bc[k] = ins

\* How far right the model follows the cursor of a run of bc.
CursorLimit(bc) == IF bc = TapeWalk THEN InitialCells + MaxGrowth ELSE MaxCursor

\* parse has not been called.
ParseIdle ==
    /\ code = <<>>
    /\ idx = 0
    /\ output = <<>>
    /\ loop_stack = <<>>
    /\ pstate = "idle"

\* run_bytecode is called: a fresh State, the instruction pointer at 0.  A
\* bytecode without Input is run on the empty input stream, one without
\* Output on a stream that accepts every byte.
RunCalled ==
    /\ ParseIdle
    /\ bytecode \in Programs(MaxCode) \cup {TapeWalk, NestedLoops}
    /\ input \in Inputs(IF Has(bytecode, Input) THEN MaxInput ELSE 0)
    /\ sink \in IF Has(bytecode, Output) THEN Sinks(MaxSinkRoom) ELSE {Unbounded}
    /\ state = State_new
    /\ position = 0
    /\ input_pos = 0
    /\ written = <<>>
    /\ status = "running"

InitRun == RunCalled /\ lean = NoRun

\* One pass of the while loop, or its end, as a function of the run c.
run_step(bc, in, snk, c) ==
    IF c.status # "running" THEN c
    ELSE IF c.position >= Len(bc) THEN [c EXCEPT !.status = "finished"]
    ELSE
      LET ins == At(bc, c.position)
          next == [c EXCEPT !.position = @ + 1]
      IN  CASE ins = GoRight -> [next EXCEPT !.state = move_right(c.state)]
            [] ins = GoLeft ->
                 LET r == move_left(c.state)
                 IN  IF r.panic
                     THEN [c EXCEPT !.status = "panic_move_left"]
                     ELSE [next EXCEPT !.state = r.state]
            [] ins = Increment ->
                 [next EXCEPT !.state =
                     set_data(c.state, wrapping_add(get_data(c.state), 1))]
            [] ins = Decrement ->
                 [next EXCEPT !.state =
                     set_data(c.state, wrapping_sub(get_data(c.state), 1))]
            [] ins = Output ->
                 IF write_all_ok(snk, c.written)
                 THEN [next EXCEPT !.written = Append(@, get_data(c.state))]
                 ELSE [c EXCEPT !.status = "panic_output"]
            [] ins = Input ->
                 LET r == read_exact(in, c.input_pos)
                 IN  IF r.ok
                     THEN [next EXCEPT !.state = set_data(c.state, r.byte),
                                       !.input_pos = r.pos]
                     ELSE [c EXCEPT !.status = "panic_input"]
            [] ins.op = "BeginLoop" ->
                 [c EXCEPT !.position =
                     (IF get_data(c.state) = 0 THEN ins.idx ELSE @) + 1]
            [] ins.op = "EndLoop" ->
                 [c EXCEPT !.position =
                     (IF get_data(c.state) # 0 THEN ins.idx ELSE @) + 1]
            [] ins = Abort -> [c EXCEPT !.status = "panic_abort"]

\* The second run takes its pass of the loop with the first; a run that has
\* not started stays as it is.
TwinStep == lean' = run_step(bytecode, input, sink, lean)

\* The while loop's condition holds.
Running == status = "running" /\ position < Len(bytecode)

instruction == At(bytecode, position)

ExecGoRight ==
    /\ Running
    /\ instruction = GoRight
    /\ state.position < CursorLimit(bytecode)
    /\ state' = move_right(state)
    /\ position' = position + 1
    /\ TwinStep
    /\ UNCHANGED <<parseVars, bytecode, input, input_pos, written, sink, status>>

ExecGoLeft ==
    /\ Running
    /\ instruction = GoLeft
    /\ LET r == move_left(state)
       IN  /\ state' = r.state
           /\ status' = IF r.panic THEN "panic_move_left" ELSE status
           /\ position' = IF r.panic THEN position ELSE position + 1
    /\ TwinStep
    /\ UNCHANGED <<parseVars, bytecode, input, input_pos, written, sink>>

ExecIncrement ==
    /\ Running
    /\ instruction = Increment
    /\ state' = set_data(state, wrapping_add(get_data(state), 1))
    /\ position' = position + 1
    /\ TwinStep
    /\ UNCHANGED <<parseVars, bytecode, input, input_pos, written, sink, status>>

ExecDecrement ==
    /\ Running
    /\ instruction = Decrement
    /\ state' = set_data(state, wrapping_sub(get_data(state), 1))
    /\ position' = position + 1
    /\ TwinStep
    /\ UNCHANGED <<parseVars, bytecode, input, input_pos, written, sink, status>>

\* A mutant of ExecOutput: the cursor is written, not the cell under it.
ExecOutputCursor ==
    /\ Running
    /\ instruction = Output
    /\ Len(written) < MaxWritten
    /\ IF write_all_ok(sink, written)
       THEN /\ written' = Append(written, state.position)
            /\ position' = position + 1
            /\ UNCHANGED status
       ELSE /\ status' = "panic_output"
            /\ UNCHANGED <<written, position>>
    /\ TwinStep
    /\ UNCHANGED <<parseVars, bytecode, state, input, input_pos, sink>>

ExecOutput ==
    /\ Running
    /\ instruction = Output
    /\ Len(written) < MaxWritten
    /\ IF write_all_ok(sink, written)
       THEN /\ written' = Append(written, get_data(state))
            /\ position' = position + 1
            /\ UNCHANGED status
       ELSE /\ status' = "panic_output"
            /\ UNCHANGED <<written, position>>
    /\ TwinStep
    /\ UNCHANGED <<parseVars, bytecode, state, input, input_pos, sink>>

ExecInput ==
    /\ Running
    /\ instruction = Input
    /\ LET r == read_exact(input, input_pos)
       IN  IF r.ok
           THEN /\ state' = set_data(state, r.byte)
                /\ input_pos' = r.pos
                /\ position' = position + 1
                /\ UNCHANGED status
           ELSE /\ status' = "panic_input"
                /\ UNCHANGED <<state, input_pos, position>>
    /\ TwinStep
    /\ UNCHANGED <<parseVars, bytecode, input, written, sink>>

\* A mutant of ExecBeginLoop: the jump lands on the EndLoop, not past it.
ExecBeginLoopOnTarget ==
    /\ Running
    /\ instruction.op = "BeginLoop"
    /\ position' = IF get_data(state) = 0 THEN instruction.idx ELSE position + 1
    /\ TwinStep
    /\ UNCHANGED <<parseVars, bytecode, state, input, input_pos, written, sink, status>>

ExecBeginLoop ==
    /\ Running
    /\ instruction.op = "BeginLoop"
    /\ position' = (IF get_data(state) = 0 THEN instruction.idx ELSE position) + 1
    /\ TwinStep
    /\ UNCHANGED <<parseVars, bytecode, state, input, input_pos, written, sink, status>>

\* A mutant of ExecEndLoop: the jump back is taken on a zero cell.
ExecEndLoopOnZero ==
    /\ Running
    /\ instruction.op = "EndLoop"
    /\ position' = (IF get_data(state) = 0 THEN instruction.idx ELSE position) + 1
    /\ TwinStep
    /\ UNCHANGED <<parseVars, bytecode, state, input, input_pos, written, sink, status>>

ExecEndLoop ==
    /\ Running
    /\ instruction.op = "EndLoop"
    /\ position' = (IF get_data(state) # 0 THEN instruction.idx ELSE position) + 1
    /\ TwinStep
    /\ UNCHANGED <<parseVars, bytecode, state, input, input_pos, written, sink, status>>

\* A mutant of ExecAbort: the placeholder is stepped over.
ExecAbortSkip ==
    /\ Running
    /\ instruction = Abort
    /\ position' = position + 1
    /\ TwinStep
    /\ UNCHANGED <<parseVars, bytecode, state, input, input_pos, written, sink, status>>

ExecAbort ==
    /\ Running
    /\ instruction = Abort
    /\ status' = "panic_abort"
    /\ TwinStep
    /\ UNCHANGED <<parseVars, bytecode, state, position, input, input_pos, written, sink>>

\* The while loop's condition fails: run_bytecode returns.
Finish ==
    /\ status = "running"
    /\ position >= Len(bytecode)
    /\ status' = "finished"
    /\ TwinStep
    /\ UNCHANGED <<parseVars, bytecode, state, position, input, input_pos, written, sink>>

NextRun ==
    \/ ExecGoRight
    \/ ExecGoLeft
    \/ ExecIncrement
    \/ ExecDecrement
    \/ ExecOutput
    \/ ExecInput
    \/ ExecBeginLoop
    \/ ExecEndLoop
    \/ ExecAbort
    \/ Finish

SpecRun == InitRun /\ [][NextRun]_vars

\* State::new with one cell in the place of the 1024.
State_one_cell == [State_new EXCEPT !.memory = vec_zeros(1)]

\* run_bytecode is called, and a second run of the same bytecode on the
\* same streams starts on a tape of one cell.
InitTwin ==
    /\ RunCalled
    /\ lean = Run(State_one_cell, 0, 0, <<>>, "running")

SpecTwin == InitTwin /\ [][NextRun]_vars

---------------------------------------------------------------------------
(* lib.rs: run *)

\* run is called with a text.
Init == InitParse

\* parse has returned: run_bytecode is called on its result, with the
\* process's input and output streams.
RunStart ==
    /\ pstate = "returned"
    /\ status = "idle"
    /\ bytecode' = output
    /\ input' \in Inputs(IF Has(output, Input) THEN MaxInput ELSE 0)
    /\ sink' \in IF Has(output, Output) THEN Sinks(MaxSinkRoom) ELSE {Unbounded}
    /\ state' = State_new
    /\ position' = 0
    /\ input_pos' = 0
    /\ written' = <<>>
    /\ status' = "running"
    /\ UNCHANGED <<parseVars, lean>>

Next == NextParse \/ RunStart \/ NextRun

Spec == Init /\ [][Next]_vars

---------------------------------------------------------------------------
(* What the claims say of a source text, stated on the text alone. *)

\* The text without the characters parse skips.
Strip(text) == SelectSeq(text, LAMBDA c : c \in InstrChars)

OnlyInstr(text) == \A k \in 1..Len(text) : text[k] \in InstrChars

\* '[' minus ']' among the characters at 0-based positions from..to-1.
Depth(text, from, to) ==
    Cardinality({k \in from..(to - 1) : At(text, k) = "["})
    - Cardinality({k \in from..(to - 1) : At(text, k) = "]"})

\* Some ']' closes nothing.
HasUnmatchedClose(text) == \E n \in 1..Len(text) : Depth(text, 0, n) < 0

\* The characters at from..to-1 are a balanced bracket text.
BalancedBetween(text, from, to) ==
    /\ \A n \in from..to : Depth(text, from, n) >= 0
    /\ Depth(text, from, to) = 0

Balanced(text) == BalancedBetween(text, 0, Len(text))

\* The '[' a ']' at position j closes: the nearest preceding '[' with
\* nothing left open between the two.
Partner(text, j) ==
    CHOOSE i \in 0..(j - 1) :
        /\ At(text, i) = "["
        /\ BalancedBetween(text, i + 1, j)

\* The instruction of a character that is no bracket.
SimpleInstr(c) ==
    CASE c = ">" -> GoRight
      [] c = "<" -> GoLeft
      [] c = "+" -> Increment
      [] c = "-" -> Decrement
      [] c = "." -> Output
      [] c = "," -> Input

Indices(s) == 0..(Len(s) - 1)

\* Every BeginLoop(j) at i has EndLoop(i) at j and the converse.
LoopsPaired(out) ==
    \A i \in Indices(out) :
        /\ At(out, i).op = "BeginLoop" =>
              /\ At(out, i).idx \in Indices(out)
              /\ At(out, At(out, i).idx) = EndLoop(i)
        /\ At(out, i).op = "EndLoop" =>
              /\ At(out, i).idx \in Indices(out)
              /\ At(out, At(out, i).idx) = BeginLoop(i)

Panicked == pstate \in {"panic_unwrap", "panic_index"}

---------------------------------------------------------------------------
(* C1: for every source text with balanced brackets, whatever other        *)
(* characters it holds, the sequence parse returns pairs its loop          *)
(* instructions: BeginLoop(j) at i has EndLoop(i) at j, and the converse,  *)
(* with both indices inside the sequence.                                  *)
C1_BalancedTextPairsLoops ==
    (pstate = "returned" /\ Balanced(code)) => LoopsPaired(output)

(* C2: inserting characters that are no instructions changes nothing:      *)
(* parse of a text ends as parse of the text without them ends, and        *)
(* returns the same sequence, payloads included.                           *)
C2_InsertionsChangeNothing ==
    pstate # "parsing" =>
        LET bare == parse(Strip(code))
        IN  /\ bare.result = pstate
            /\ pstate = "returned" => bare.output = output

(* C3: parse aborts on a text if and only if the text holds an unmatched   *)
(* ']'.                                                                    *)
C3_AbortsIffUnmatchedClose ==
    pstate # "parsing" => (Panicked <=> HasUnmatchedClose(code))

(* C4: for every source text with balanced brackets, the sequence parse    *)
(* returns holds no Abort.                                                 *)
C4_BalancedTextLeavesNoAbort ==
    (pstate = "returned" /\ Balanced(code)) =>
        \A i \in Indices(output) : At(output, i) # Abort

(* C5: whenever parse returns, the output has one instruction per          *)
(* recognized character, in source order: its length is the number of      *)
(* recognized characters, and where the k-th of them is one of > < + - . , *)
(* the instruction at index k is the one of that character.                *)
C5_OneInstructionPerRecognizedChar ==
    pstate = "returned" =>
        LET rec == Strip(code)
        IN  /\ Len(output) = Len(rec)
            /\ \A k \in Indices(rec) :
                   At(rec, k) \notin {"[", "]"} =>
                       At(output, k) = SimpleInstr(At(rec, k))

(* C6: for every text made of the eight instruction characters only, with  *)
(* balanced brackets, parse pairs each ']' at position j with the nearest   *)
(* preceding '[' at position i that is not yet paired: the output holds    *)
(* BeginLoop(j) at i and EndLoop(i) at j.                                  *)
C6_InnermostFirstPairing ==
    (pstate = "returned" /\ OnlyInstr(code) /\ Balanced(code)) =>
        \A j \in Indices(code) :
            At(code, j) = "]" =>
                /\ At(output, Partner(code, j)) = BeginLoop(j)
                /\ At(output, j) = EndLoop(Partner(code, j))

\* parse has returned on a text of instruction characters in which one loop
\* lies inside another and one loop follows another.
C6_Witness ==
    /\ pstate = "returned"
    /\ OnlyInstr(code)
    /\ Balanced(code)
    /\ \E j1, j2 \in Indices(code) :
          /\ At(code, j1) = "]" /\ At(code, j2) = "]" /\ j1 < j2
          /\ Partner(code, j2) < Partner(code, j1)
          /\ At(output, Partner(code, j2)) = BeginLoop(j2)

---------------------------------------------------------------------------
(* What the claims say of a step of run_bytecode. *)

\* The next step of the run executes the instruction ins.
Executing(ins) == Running /\ instruction = ins

\* The cells of the tape at the indices below n are left as they are.
CellsKept(n) ==
    \A i \in 0..(n - 1) : vec_get(state'.memory, i) = vec_get(state.memory, i)

TapeCursorValid ==
    status # "idle" =>
        state.position \in 0..(vec_len(state.memory) - 1)

TapeGrowth ==
    LET len == vec_len(state.memory)
        len2 == vec_len(state'.memory)
    IN  /\ len2 >= len
        /\ len2 # len =>
              /\ Executing(GoRight)
              /\ state.position + 1 = len
              /\ len2 = len + 1
              /\ vec_get(state'.memory, len) = 0
              /\ CellsKept(len)
        /\ Executing(GoRight) =>
              /\ status' = "running"
              /\ state'.position = state.position + 1
              /\ state.position + 1 = len => len2 = len + 1

(* C7: in every state of a run the cursor is an index of the tape; the     *)
(* tape never gets shorter, and it gets longer only on GoRight, by one     *)
(* cell that holds 0, exactly when the cursor after the move would equal   *)
(* the length; GoRight never fails.                                        *)
C7_TapeCursorAndGrowth == []TapeCursorValid /\ [][TapeGrowth]_vars

\* The cursor has walked off the 1024 cells State::new allocates: the tape
\* has one cell more, that cell holds 0 and the cursor is on it.
C7_Witness ==
    /\ status = "running"
    /\ vec_len(state.memory) = InitialCells + 1
    /\ state.position = InitialCells
    /\ get_data(state) = 0

GoLeftStep ==
    Executing(GoLeft) =>
        IF state.position = 0
        THEN /\ status' = "panic_move_left"
             /\ state' = state
             /\ position' = position
        ELSE /\ status' = "running"
             /\ state'.position = state.position - 1
             /\ state'.memory = state.memory
             /\ position' = position + 1

UnderflowIsFinal == status = "panic_move_left" => UNCHANGED vars

(* C8: GoLeft executed with the cursor at 0 ends the run in failure at     *)
(* that instruction: the cursor is left at 0, nothing is executed after it *)
(* and the run does not end normally.  GoLeft executed with the cursor     *)
(* above 0 moves it down by one and does not fail.                         *)
C8_GoLeftFailsOnlyAtZero == [][GoLeftStep /\ UnderflowIsFinal]_vars

\* GoRight, GoLeft, GoLeft: the second GoLeft found the cursor back at 0
\* and ended the run.
C8_Witness ==
    /\ status = "panic_move_left"
    /\ state.position = 0
    /\ position = 2
    /\ At(bytecode, 0) = GoRight
    /\ At(bytecode, 1) = GoLeft

CellsAreBytes ==
    \A i \in vec_nonzero(state.memory) :
        vec_get(state.memory, i) \in 1..255

IncDecStep ==
    LET v == get_data(state)
    IN  /\ Executing(Increment) =>
              /\ status' = "running"
              /\ position' = position + 1
              /\ get_data(state') = (IF v = 255 THEN 0 ELSE v + 1)
        /\ Executing(Decrement) =>
              /\ status' = "running"
              /\ position' = position + 1
              /\ get_data(state') = (IF v = 0 THEN 255 ELSE v - 1)

(* C9: every cell holds a value in 0..255; Increment sets the current cell *)
(* to (v + 1) mod 256 and Decrement to (v - 1) mod 256, so 255 becomes 0   *)
(* and 0 becomes 255, and neither fails.                                   *)
C9_CellsWrapModulo256 == []CellsAreBytes /\ [][IncDecStep]_vars

\* Input of the byte 255, Increment, Decrement: the cell went from 255 to 0
\* and from 0 back to 255.
C9_Witness ==
    /\ status = "finished"
    /\ bytecode = <<Input, Increment, Decrement>>
    /\ input = <<255>>
    /\ get_data(state) = 255

InputStep ==
    Executing(Input) =>
        IF input_pos < Len(input)
        THEN /\ status' = "running"
             /\ position' = position + 1
             /\ input_pos' = input_pos + 1
             /\ state'.position = state.position
             /\ get_data(state') = At(input, input_pos)
        ELSE /\ status' = "panic_input"
             /\ input_pos' = input_pos
             /\ state' = state

\* input_pos counts the Inputs executed: nothing else reads the stream.
OnlyInputReads ==
    /\ input' = input
    /\ input_pos' # input_pos => Executing(Input)

ExhaustionIsFinal == status = "panic_input" => UNCHANGED vars

(* C10: Input executed while unread bytes remain takes the next unread     *)
(* byte, in stream order, into the current cell, so that the k-th Input    *)
(* executed receives the k-th byte; Input executed when none remains ends  *)
(* the run in failure, and the run does not end normally.                  *)
C10_InputReadsInOrder ==
    [][InputStep /\ OnlyInputReads /\ ExhaustionIsFinal]_vars

\* Three Inputs on a stream of two different bytes: the second byte is in
\* the cell and the third Input has ended the run.
C10_Witness ==
    /\ status = "panic_input"
    /\ input_pos = 2
    /\ position = 2
    /\ At(input, 0) # At(input, 1)
    /\ get_data(state) = At(input, 1)


\* How the next pass of the while loop leaves the run: "running" when it
\* goes on, else the way run_bytecode ends.
Outcome ==
    IF position >= Len(bytecode) THEN "finished"
    ELSE CASE instruction = GoLeft /\ state.position = 0 -> "panic_move_left"
           [] instruction = Input /\ input_pos >= Len(input) -> "panic_input"
           [] instruction = Output /\ sink.bounded /\ Len(written) >= sink.room
                 -> "panic_output"
           [] instruction = Abort -> "panic_abort"
           [] OTHER -> "running"

OutcomeStep ==
    IF status = "running" THEN status' = Outcome ELSE UNCHANGED vars

StatusIsAnOutcome ==
    /\ status \in {"running", "finished", "panic_move_left", "panic_input",
                   "panic_output", "panic_abort"}
    /\ status = "finished" => position >= Len(bytecode)

(* C11: run_bytecode ends in exactly one of normal termination, tape       *)
(* underflow, input exhaustion, output sink failure or a reached Abort:    *)
(* it returns only when the instruction pointer has reached the length of  *)
(* the bytecode, each failure arises at its own instruction and condition, *)
(* and once ended the run does nothing more.                               *)
C11_OneOutcomePerRun == []StatusIsAnOutcome /\ [][OutcomeStep]_vars

\* The stream took one byte and refused the next: the run ended at the
\* second Output.
C11_Witness ==
    /\ status = "panic_output"
    /\ Len(written) = 1
    /\ position = 1


\* The instruction pointer after the instruction at position, when that
\* instruction does not fail.
NextPointer ==
    CASE instruction.op = "BeginLoop" /\ get_data(state) = 0 -> instruction.idx + 1
      [] instruction.op = "EndLoop" /\ get_data(state) # 0 -> instruction.idx + 1
      [] OTHER -> position + 1

PointerStep ==
    (Running /\ status' = "running") =>
        /\ position' = NextPointer
        /\ instruction.op \in {"BeginLoop", "EndLoop"} => state' = state

(* C15: after an instruction at p that does not fail, the instruction      *)
(* pointer is target + 1 for BeginLoop(target) on a zero cell and for      *)
(* EndLoop(target) on a non-zero cell, and p + 1 in every other case; the  *)
(* loop instructions change neither the tape nor the cursor.               *)
C15_NextInstructionPointer == [][PointerStep]_vars

\* Increment, Output, EndLoop(0): the EndLoop found a non-zero cell and
\* the pointer went from 2 back to 1.
C15_Witness ==
    /\ status = "running"
    /\ bytecode = <<Increment, Output, EndLoop(0)>>
    /\ Len(written) = 1
    /\ position = 1

OutputStep ==
    /\ written' # written =>
          /\ Executing(Output)
          /\ written' = Append(written, get_data(state))
    /\ (Executing(Output) /\ status' = "running") =>
          written' = Append(written, get_data(state))
    /\ status' # "running" => written' = written

(* C16: the output stream only grows, by the value of the current cell at  *)
(* each Output executed: no other instruction writes to it, and the state  *)
(* in which a failure ends the run holds all that was written before.      *)
C16_OutputIsAppendOnly == [][OutputStep]_vars

\* Increment, Output, GoLeft: the byte 1 was written, then the run failed
\* on the tape's left end, and the byte is still there.
C16_Witness ==
    /\ status = "panic_move_left"
    /\ written = <<1>>

\* The cells that hold something before or after the step, the current
\* one apart when skip is TRUE, hold the same after as before.
CellsSame(skip) ==
    \A i \in (vec_nonzero(state.memory) \cup vec_nonzero(state'.memory))
               \ (IF skip THEN {state.position} ELSE {}) :
        vec_get(state'.memory, i) = vec_get(state.memory, i)

FrameStep ==
    /\ (Running /\ instruction.op \in {"Increment", "Decrement", "Input"}) =>
          /\ state'.position = state.position
          /\ vec_len(state'.memory) = vec_len(state.memory)
          /\ CellsSame(TRUE)
    /\ (Running /\ instruction.op \in {"GoLeft", "GoRight"}) =>
          /\ CellsSame(FALSE)
          /\ input_pos' = input_pos
    /\ (Running /\ instruction.op \in {"Output", "BeginLoop", "EndLoop"}) =>
          state' = state
    /\ (Running /\ instruction.op # "Input") =>
          input_pos' = input_pos
    /\ input' = input

(* C19: an instruction changes only what it names.  Increment, Decrement   *)
(* and Input change the current cell and leave the cursor and every other  *)
(* cell; GoLeft and GoRight change the cursor and leave the value of every *)
(* existing cell; Output, BeginLoop and EndLoop leave cursor and cells;    *)
(* only Input consumes input.                                              *)
C19_InstructionsChangeWhatTheyName == [][FrameStep]_vars

\* Increment, GoRight, Increment: the second Increment wrote cell 1 and
\* left cell 0 as the first had set it.
C19_Witness ==
    /\ status = "finished"
    /\ bytecode = <<Increment, GoRight, Increment>>
    /\ state.position = 1
    /\ vec_get(state.memory, 0) = 1
    /\ vec_get(state.memory, 1) = 1


\* The character an instruction is written for; Abort is what parse writes
\* for a '['.
Render(ins) ==
    CASE ins.op = "GoRight" -> ">"
      [] ins.op = "GoLeft" -> "<"
      [] ins.op = "Increment" -> "+"
      [] ins.op = "Decrement" -> "-"
      [] ins.op = "Output" -> "."
      [] ins.op = "Input" -> ","
      [] ins.op = "BeginLoop" -> "["
      [] ins.op = "EndLoop" -> "]"
      [] ins.op = "Abort" -> "["

RenderAll(out) == [k \in 1..Len(out) |-> Render(out[k])]

(* C13: for every sequence S that parse returns on a text with balanced    *)
(* brackets, parse of the rendering of S returns S again, jump targets     *)
(* included.                                                               *)
C13_RenderThenParseIsIdentity ==
    (pstate = "returned" /\ Balanced(code)) =>
        LET again == parse(RenderAll(output))
        IN  /\ again.result = "returned"
            /\ again.output = output

\* Every entry of the bracket stack is an index of the output, and the
\* output holds the placeholder there.
StackPointsAtPlaceholders ==
    pstate \in {"parsing", "returned"} =>
        \A k \in 1..Len(loop_stack) :
            /\ loop_stack[k] < Len(output)
            /\ At(output, loop_stack[k]) = Abort

\* The step of a ']' that does not panic writes, as BeginLoop's target, the
\* index at which it then pushes the EndLoop.
CloseStep ==
    (pstate = "parsing" /\ pstate' = "parsing" /\ idx < Len(code)
       /\ At(code, idx) = "]") =>
        /\ Len(output') = Len(output) + 1
        /\ At(output', Len(output)).op = "EndLoop"
        /\ \A i \in Indices(output) :
               At(output', i) # At(output, i) =>
                   At(output', i) = BeginLoop(Len(output))

(* C14: at every step of parse every entry of the bracket stack is an      *)
(* index of the output built so far, at which the output holds the Abort   *)
(* placeholder of its '['; and the target given to BeginLoop for a ']' is   *)
(* the output index the EndLoop is about to take.                          *)
C14_StackHoldsOutputIndices ==
    []StackPointsAtPlaceholders /\ [][CloseStep]_vars


\* The '[' at position i of the text is closed by no ']'.
Unclosed(text, i) ==
    /\ At(text, i) = "["
    /\ \A j \in (i + 1)..(Len(text) - 1) :
           ~(At(text, j) = "]" /\ BalancedBetween(text, i + 1, j))

\* The first '[' of the text that nothing closes.
FirstUnclosed(text) ==
    CHOOSE i \in Indices(text) :
        /\ Unclosed(text, i)
        /\ \A k \in 0..(i - 1) : ~Unclosed(text, k)

\* Instruction characters only, an unmatched '[' and no unmatched ']'.
OpenEnded(text) ==
    /\ OnlyInstr(text)
    /\ ~HasUnmatchedClose(text)
    /\ \E i \in Indices(text) : Unclosed(text, i)

(* C17: for a text of instruction characters with an unmatched '[' and no  *)
(* unmatched ']', the run of what parse returns never ends normally: the   *)
(* instruction pointer does not get past the placeholder of the first      *)
(* unmatched '['.                                                          *)
C17_UnmatchedOpenNeverFinishes ==
    (OpenEnded(code) /\ status # "idle") =>
        /\ status # "finished"
        /\ position <= FirstUnclosed(code)

\* "[]" and then an unmatched '[' at position 3: the run went through the
\* loop and ended at the placeholder.
C17_Witness ==
    /\ OpenEnded(code)
    /\ At(code, 0) = "["
    /\ status = "panic_abort"
    /\ position = 3


\* The loop instructions of bc are paired, each BeginLoop before its
\* EndLoop, and no two pairs overlap.
ProperlyNested(bc) ==
    /\ LoopsPaired(bc)
    /\ \A i \in Indices(bc) :
           At(bc, i).op = "BeginLoop" =>
               /\ i < At(bc, i).idx
               /\ \A k \in (i + 1)..(At(bc, i).idx - 1) :
                      /\ At(bc, k).op = "BeginLoop" => At(bc, k).idx < At(bc, i).idx
                      /\ At(bc, k).op = "EndLoop" => At(bc, k).idx > i

\* What a step does to the loop of the BeginLoop at i.
LoopStep(i) ==
    LET j == At(bytecode, i).idx
        body == (i + 1)..(j - 1)
    IN  /\ (position' # position /\ position' = j + 1) => get_data(state') = 0
        /\ (position \notin body /\ position' \in body) =>
              /\ position \in {i, j}
              /\ get_data(state) # 0

LoopsStep ==
    ProperlyNested(bytecode) =>
        \A i \in Indices(bytecode) :
            At(bytecode, i).op = "BeginLoop" => LoopStep(i)

PointerInRange ==
    (status # "idle" /\ ProperlyNested(bytecode)) =>
        position \in 0..Len(bytecode)

(* C18: on a bytecode whose loop instructions are a properly nested        *)
(* bijection, for every pair of BeginLoop at i and EndLoop at j: whenever  *)
(* the instruction pointer becomes j + 1 the current cell is 0, the        *)
(* instructions between i and j are entered only from i or j with the      *)
(* current cell not 0, and the instruction pointer stays in 0..length.     *)
C18_LoopsRunWhileCellIsNonZero == []PointerInRange /\ [][LoopsStep]_vars

\* "+[[-]]" has run through its two loops to the end.
C18_Witness ==
    /\ bytecode = NestedLoops
    /\ status = "finished"
    /\ position = Len(bytecode)
    /\ get_data(state) = 0


\* ---------------------------------------------------------------------------
\* The tape's initial length
\* ---------------------------------------------------------------------------

\* The run on the one-cell tape is where the run on the 1024-cell tape is.
SameRun ==
    /\ lean.position = position
    /\ lean.state.position = state.position
    /\ get_data(lean.state) = get_data(state)
    /\ lean.input_pos = input_pos
    /\ lean.written = written
    /\ lean.status = status

\* The one-cell tape has grown to hold its cursor.
LeanCursorValid == lean.state.position < vec_len(lean.state.memory)

(* C12: the same bytecode run on the same input on a tape of 1024 zero cells
   and on a tape of one zero cell that grows on demand is at every step at
   the same instruction pointer, cursor, current cell value, consumed input
   and written output, and the two runs finish or fail at the same step. *)
C12_InitialLengthIsNotObservable == SameRun /\ LeanCursorValid

\* Both runs have finished after the one-cell tape grew under a cursor that
\* went right, came back and wrote what it found.
C12_Witness ==
    /\ status = "finished"
    /\ lean.status = "finished"
    /\ vec_len(lean.state.memory) > 1
    /\ vec_len(lean.state.memory) < vec_len(state.memory)
    /\ lean.state.position < vec_len(lean.state.memory) - 1
    /\ written # <<>>

====
